---- MODULE Spec2Model ----
(***************************************************************************)
(* Model of separar_certificados.py: a utility that splits a multi-page    *)
(* PDF into one PDF per page, naming each output after a name taken from a *)
(* supplied list, extracted from the page text, or generated.              *)
(*                                                                         *)
(* Strings are sequences of one-character strings, so that sanitising,     *)
(* formatting and collision suffixes are computed character by character.  *)
(***************************************************************************)
EXTENDS Integers, Sequences, FiniteSets, TLC

VARIABLES
    pc,             \* position of the running function / script
    arg_nombre,     \* limpiar_nombre_archivo: argument `nombre`
    ret_limpio,     \* limpiar_nombre_archivo: returned value
    arg_pagina,     \* extraer_nombre_de_pagina: the page (what re.search gives per pattern)
    ret_nombre,     \* extraer_nombre_de_pagina: returned value
    salida,         \* names of the files present in the output directory
    lista_nombres,  \* separar_certificados: argument `lista_nombres`
    prefijo,        \* argument `prefijo`
    sufijo,         \* argument `sufijo`
    llamadas,       \* calls of separar_certificados made so far
    paginas_vistas, \* pages of the documents opened so far (bounds the run)
    total_paginas,  \* len(documento) of the open document
    i,              \* loop index of the page loop (0-based)
    iter,           \* locals of the last page iteration (pagina, nombre, origen, ...)
    resultados,     \* the summary being built: exitosos, errores, total
    abiertos,       \* fitz documents opened and not yet closed
    salida_antes,   \* history: the output directory when the last page iteration began
    escritos,       \* history: every path saved successfully, in order
    modo_archivo,   \* main: --archivo was given
    limpiar_salida, \* procesar_carpeta_entrada: argument `limpiar_salida`
    eliminar_entrada, \* procesar_carpeta_entrada: argument `eliminar_entrada`
    entrada,        \* the PDFs present in the input directory
    archivos_pdf,   \* procesar_carpeta_entrada: the list globbed from the input directory
    hechos,         \* documents of archivos_pdf the batch loop is done with
    todos_resultados, \* the summaries collected by the batch
    pdfs_procesados,  \* the inputs marked for deletion
    borrados,       \* entries of pdfs_procesados the deletion loop is done with
    exit_code,      \* status passed to sys.exit, -1 while running
    docs_fallidos,  \* history: the documents whose processing raised
    documento,      \* the pages of the document processed twice
    corridas        \* the runs made on it: purge outcome, write outcomes, summary

varsLimpiar == <<arg_nombre, ret_limpio>>
varsExtraer == <<arg_pagina, ret_nombre>>
varsArgs == <<lista_nombres, prefijo, sufijo>>
varsSeparar ==
    <<salida, varsArgs, llamadas, paginas_vistas, total_paginas, i, iter, resultados,
      abiertos, salida_antes, escritos>>

varsLote ==
    <<modo_archivo, limpiar_salida, eliminar_entrada, entrada, archivos_pdf, hechos,
      todos_resultados, pdfs_procesados, borrados, exit_code, docs_fallidos>>

varsIdem == <<documento, corridas>>

vars == <<pc, varsLimpiar, varsExtraer, varsSeparar, varsLote, varsIdem>>

(***************************************************************************)
(* Bounds of the model.                                                    *)
(***************************************************************************)
MaxAfijo == 2       \* longest free head / tail of a sanitiser input
MaxCaptura == 4     \* longest capture group of a regex match
MaxPatrones == 2    \* longest pattern list
MaxPaginas == 3     \* most pages processed in one run, over all its documents
MaxDocs == 2        \* most documents processed in one run
MaxLista == 1       \* longest supplied name list

(***************************************************************************)
(* Strings.                                                                *)
(***************************************************************************)
None == <<"None">>          \* Python's None (no character sequence equals it)

SeqsHasta(S, n) == UNION {[1..k -> S] : k \in 0..n}

Repetir(c, k) == [j \in 1..k |-> c]

\* characters removed by the class [<>:"/\\|?*]
Reservados == {"<", ">", ":", "\"", "/", "\\", "|", "?", "*"}

\* characters matched by \s and removed by str.strip()
Espacios == {" ", "\t", "\n", "\r", "\f"}

\* re.sub(r'[<>:"/\\|?*]', '', s)
QuitarReservados(s) == SelectSeq(s, LAMBDA c : c \notin Reservados)

\* str.strip(): what lies between the first and the last non-whitespace character
strip(s) ==
    LET visibles == {j \in 1..Len(s) : s[j] \notin Espacios}
        primero == CHOOSE j \in visibles : \A k \in visibles : j <= k
        ultimo == CHOOSE j \in visibles : \A k \in visibles : j >= k
    IN  IF visibles = {} THEN <<>> ELSE SubSeq(s, primero, ultimo)

\* re.sub(r'\s+', ' ', s): every maximal run of whitespace becomes one space
ColapsarEspacios(s) ==
    LET marcado == [j \in 1..Len(s) |-> <<j, s[j]>>]
        inicia(p) == p[2] \notin Espacios \/ p[1] = 1 \/ s[p[1] - 1] \notin Espacios
        quedan == SelectSeq(marcado, inicia)
    IN  [k \in 1..Len(quedan) |->
            IF quedan[k][2] \in Espacios THEN " " ELSE quedan[k][2]]

\* s.split('\n')[0]
AntesDeSalto(s) ==
    LET saltos == {j \in 1..Len(s) : s[j] = "\n"}
        primero == CHOOSE j \in saltos : \A k \in saltos : j <= k
    IN  IF saltos = {} THEN s ELSE SubSeq(s, 1, primero - 1)

(***************************************************************************)
(* limpiar_nombre_archivo                                                  *)
(***************************************************************************)
MaxNombre == 100

SinNombre ==
    <<"c","e","r","t","i","f","i","c","a","d","o","_",
      "s","i","n","_","n","o","m","b","r","e">>

\* nombre_limpio[:100] when longer than 100
Recortar(s) == IF Len(s) > MaxNombre THEN SubSeq(s, 1, MaxNombre) ELSE s

limpiar_nombre_archivo(nombre) ==
    LET sin_reservados == QuitarReservados(nombre)
        colapsado == ColapsarEspacios(sin_reservados)
        recortado == Recortar(strip(colapsado))
    IN  IF recortado = <<>> THEN SinNombre ELSE recortado

(***************************************************************************)
(* extraer_nombre_de_pagina                                                *)
(*                                                                         *)
(* A page is represented by what re.search(patron, texto) yields for each  *)
(* pattern of the list, in list order: no match, a match with its capture  *)
(* group 1, or re.error for an invalid pattern.                            *)
(***************************************************************************)
SinCoincidencia == [tipo |-> "nomatch", grupo |-> <<>>]
PatronInvalido == [tipo |-> "error", grupo |-> <<>>]
Coincidencia(g) == [tipo |-> "match", grupo |-> g]

\* lines 154-158: strip, collapse whitespace, keep the first line, strip
NormalizarCaptura(grupo) ==
    strip(AntesDeSalto(ColapsarEspacios(strip(grupo))))

RECURSIVE extraer_nombre_de_pagina(_)
extraer_nombre_de_pagina(pagina) ==
    IF pagina = <<>> THEN None
    ELSE LET m == Head(pagina)
             nombre == NormalizarCaptura(m.grupo)
         IN  IF m.tipo = "match" /\ nombre # <<>> /\ Len(nombre) > 2
             THEN nombre
             ELSE extraer_nombre_de_pagina(Tail(pagina))

(***************************************************************************)
(* separar_certificados: the per-page steps.                               *)
(***************************************************************************)
Digitos == <<"0", "1", "2", "3", "4", "5", "6", "7", "8", "9">>

\* str(n) for n >= 0
RECURSIVE Decimal(_)
Decimal(n) ==
    IF n < 10 THEN <<Digitos[n + 1]>>
    ELSE Decimal(n \div 10) \o <<Digitos[(n % 10) + 1]>>

\* f"{numero:03d}"
Formato03d(numero) ==
    LET d == Decimal(numero)
    IN  IF Len(d) < 3 THEN Repetir("0", 3 - Len(d)) \o d ELSE d

PrefijoGenerado == <<"c","e","r","t","i","f","i","c","a","d","o","_">>
ExtPdf == <<".", "p", "d", "f">>

\* Python truth of a name: None and "" are false
EsFalso(nombre) == nombre = None \/ nombre = <<>>

\* mutant of ResolverNombre: extraction is tried before the list
ResolverNombreExtraePrimero(lista, idx, pagina) ==
    LET extraido == extraer_nombre_de_pagina(pagina)
        tomado ==
            IF extraido # None
            THEN [nombre |-> extraido, origen |-> "extraido"]
            ELSE IF lista # <<>> /\ idx < Len(lista)
                 THEN [nombre |-> lista[idx + 1], origen |-> "lista"]
                 ELSE [nombre |-> None, origen |-> "extraido"]
    IN  IF EsFalso(tomado.nombre)
        THEN [nombre |-> PrefijoGenerado \o Formato03d(idx + 1), origen |-> "generado"]
        ELSE tomado

\* lines 259-269 (the tag written "extraído" in the source is "extraido" here).
\* A list that is None and a list that is [] fail the test
\* `if lista_nombres` alike; both are the empty sequence here.
ResolverNombre(lista, idx, pagina) ==
    LET tomado ==
            IF lista # <<>> /\ idx < Len(lista)
            THEN [nombre |-> lista[idx + 1], origen |-> "lista"]
            ELSE [nombre |-> extraer_nombre_de_pagina(pagina), origen |-> "extraido"]
    IN  IF EsFalso(tomado.nombre)
        THEN [nombre |-> PrefijoGenerado \o Formato03d(idx + 1), origen |-> "generado"]
        ELSE tomado

\* line 273
NombreBase(pre, limpio, suf) == pre \o limpio \o suf \o ExtPdf

\* line 279
NombreConContador(pre, limpio, contador, suf) ==
    pre \o limpio \o <<"_">> \o Decimal(contador) \o suf \o ExtPdf

\* lines 278-281: the loop, entered with `contador`
RECURSIVE BuscarLibre(_, _, _, _, _)
BuscarLibre(dir, pre, limpio, suf, contador) ==
    LET candidato == NombreConContador(pre, limpio, contador, suf)
    IN  IF candidato \in dir
        THEN BuscarLibre(dir, pre, limpio, suf, contador + 1)
        ELSE candidato

\* mutant of RutaSalida: the existence loop is missing
RutaSalidaSinBucle(dir, pre, limpio, suf) == NombreBase(pre, limpio, suf)

\* mutant of RutaSalida: the counter is incremented before its first use
RutaSalidaDesdeDos(dir, pre, limpio, suf) ==
    IF NombreBase(pre, limpio, suf) \in dir
    THEN BuscarLibre(dir, pre, limpio, suf, 2)
    ELSE NombreBase(pre, limpio, suf)

\* lines 273-281: the output path of a page
RutaSalida(dir, pre, limpio, suf) ==
    IF NombreBase(pre, limpio, suf) \in dir
    THEN BuscarLibre(dir, pre, limpio, suf, 1)
    ELSE NombreBase(pre, limpio, suf)

\* What insert_pdf + save do (lines 286-287): succeed, raise leaving nothing,
\* or raise leaving a partial file at the path.
Escrituras == {"ok", "falla", "falla_parcial"}

\* the output directory after the write attempt
TrasEscritura(dir, ruta, escritura) ==
    IF escritura = "falla" THEN dir ELSE dir \cup {ruta}

\* mutant of Registrar: a failed page is not recorded
RegistrarSoloExitos(res, numero, nombre, ruta, origen, escritura) ==
    IF escritura = "ok"
    THEN [res EXCEPT !.exitosos = Append(@,
            [pagina |-> numero, nombre |-> nombre, archivo |-> ruta, origen |-> origen])]
    ELSE res

\* lines 294-306: the summary after the page
Registrar(res, numero, nombre, ruta, origen, escritura) ==
    IF escritura = "ok"
    THEN [res EXCEPT !.exitosos = Append(@,
            [pagina |-> numero, nombre |-> nombre, archivo |-> ruta, origen |-> origen])]
    ELSE [res EXCEPT !.errores = Append(@, [pagina |-> numero, error |-> escritura])]

\* lines 285-288: nuevo_pdf is opened, and closed on line 288, which an
\* exception from insert_pdf or save skips
TrasManejador(handles, h, escritura) ==
    IF escritura = "ok" THEN handles ELSE handles \cup {h}

\* lines 246-251
ResultadosVacios(total, nombre_pdf) ==
    [exitosos |-> <<>>, errores |-> <<>>, total |-> total, pdf_origen |-> nombre_pdf]

\* one iteration of the loop of lines 254-306
ProcesarPagina(dir, res, lista, pre, suf, idx, pagina, escritura) ==
    LET r == ResolverNombre(lista, idx, pagina)
        limpio == limpiar_nombre_archivo(r.nombre)
        ruta == RutaSalida(dir, pre, limpio, suf)
    IN  [salida |-> TrasEscritura(dir, ruta, escritura),
         resultados |-> Registrar(res, idx + 1, r.nombre, ruta, r.origen, escritura),
         iter |-> [numero |-> idx + 1, pagina |-> pagina, nombre |-> r.nombre,
                   origen |-> r.origen, nombre_limpio |-> limpio,
                   ruta_salida |-> ruta, escritura |-> escritura]]

(***************************************************************************)
(* The inputs of the model.                                                *)
(***************************************************************************)
John_Doe == <<"J","o","h","n","_","D","o","e">>
John_Doe_1 == John_Doe \o <<"_", "1">>

\* pages: no pattern matches; the first pattern is invalid and the second
\* captures "John_Doe?"
PaginasModelo ==
    {<<SinCoincidencia, SinCoincidencia>>,
     <<PatronInvalido, Coincidencia(John_Doe \o <<"?">>)>>}

NombresLista == {<<>>, John_Doe_1}

ListasModelo == SeqsHasta(NombresLista, MaxLista)

AfijosModelo == {<<<<>>, <<>>>>, <<<<"P">>, <<"S">>>>}

\* the output directory before the run: empty, or holding John_Doe.pdf
SalidasIniciales == {{}, {John_Doe \o ExtPdf}}

IterInicial ==
    [numero |-> 0, pagina |-> <<>>, nombre |-> None, origen |-> "",
     nombre_limpio |-> <<>>, ruta_salida |-> <<>>, escritura |-> ""]

\* the whole call: lines 228-330 for a document that opens and whose pages
\* all load; `escrituras` gives the outcome of each page's write
RECURSIVE SepararDesde(_, _, _, _, _, _, _, _)
SepararDesde(dir, res, lista, pre, suf, idx, paginas, escrituras) ==
    IF idx >= Len(paginas) THEN [salida |-> dir, resultados |-> res]
    ELSE LET p == ProcesarPagina(dir, res, lista, pre, suf, idx,
                                 paginas[idx + 1], escrituras[idx + 1])
         IN  SepararDesde(p.salida, p.resultados, lista, pre, suf, idx + 1,
                          paginas, escrituras)

separar_certificados(dir, lista, pre, suf, nombre_pdf, paginas, escrituras) ==
    SepararDesde(dir, ResultadosVacios(Len(paginas), nombre_pdf), lista, pre, suf, 0,
                 paginas, escrituras)

LimpiarEnReposo == arg_nombre = <<>> /\ ret_limpio = None
ExtraerEnReposo == arg_pagina = <<>> /\ ret_nombre = None
LocalesEnReposo ==
    /\ llamadas = 0
    /\ total_paginas = 0
    /\ i = 0
    /\ iter = IterInicial
    /\ resultados = ResultadosVacios(0, 0)
    /\ abiertos = {}
    /\ salida_antes = {}
    /\ escritos = <<>>
IdemEnReposo == documento = <<>> /\ corridas = <<>>
LoteEnReposo ==
    /\ modo_archivo = FALSE
    /\ limpiar_salida = FALSE
    /\ eliminar_entrada = FALSE
    /\ entrada = {}
    /\ archivos_pdf = <<>>
    /\ hechos = 0
    /\ todos_resultados = <<>>
    /\ pdfs_procesados = <<>>
    /\ borrados = 0
    /\ exit_code = -1
    /\ docs_fallidos = {}
SepararEnReposo ==
    /\ salida = {}
    /\ lista_nombres = <<>>
    /\ prefijo = <<>>
    /\ sufijo = <<>>
    /\ paginas_vistas = 0
    /\ LocalesEnReposo

(***************************************************************************)
(* Specification of separar_certificados, page by page; successive calls   *)
(* share the output directory, as the documents of a batch do.             *)
(***************************************************************************)
ManejadorDocumento == [tipo |-> "documento", llamada |-> llamadas, pagina |-> 0]
ManejadorPagina(n) == [tipo |-> "nuevo_pdf", llamada |-> llamadas, pagina |-> n]

InitSeparar ==
    /\ pc = "inicio"
    /\ salida \in SalidasIniciales
    /\ lista_nombres \in ListasModelo
    /\ \E a \in AfijosModelo : prefijo = a[1] /\ sufijo = a[2]
    /\ llamadas = 0
    /\ paginas_vistas = 0
    /\ total_paginas = 0
    /\ i = 0
    /\ iter = IterInicial
    /\ resultados = ResultadosVacios(0, 0)
    /\ abiertos = {}
    /\ salida_antes = {}
    /\ escritos = <<>>
    /\ LimpiarEnReposo
    /\ ExtraerEnReposo
    /\ LoteEnReposo
    /\ IdemEnReposo

\* lines 213-251: the file exists and fitz.open succeeds
Sep_Abrir ==
    /\ pc \in {"inicio", "retorno", "excepcion"}
    /\ llamadas < MaxDocs
    /\ \E n \in 0..(MaxPaginas - paginas_vistas) :
        /\ total_paginas' = n
        /\ paginas_vistas' = paginas_vistas + n
        /\ resultados' = ResultadosVacios(n, llamadas + 1)
    /\ llamadas' = llamadas + 1
    /\ abiertos' = abiertos \cup {[tipo |-> "documento", llamada |-> llamadas + 1, pagina |-> 0]}
    /\ i' = 0
    /\ iter' = IterInicial
    /\ pc' = "pagina"
    /\ UNCHANGED <<salida, varsArgs, salida_antes, escritos, varsLimpiar, varsExtraer, varsLote, varsIdem>>

\* lines 213-214 and 228: the file is missing or fitz.open raises
Sep_AbrirFalla ==
    /\ pc \in {"inicio", "retorno", "excepcion"}
    /\ llamadas < MaxDocs
    /\ llamadas' = llamadas + 1
    /\ pc' = "excepcion"
    /\ UNCHANGED <<salida, varsArgs, paginas_vistas, total_paginas, i, iter, resultados,
                   abiertos, salida_antes, escritos, varsLimpiar, varsExtraer, varsLote, varsIdem>>

\* lines 254-306: one page
Sep_Pagina ==
    /\ pc = "pagina"
    /\ i < total_paginas
    /\ \E pagina \in PaginasModelo, escritura \in Escrituras :
        LET p == ProcesarPagina(salida, resultados, lista_nombres, prefijo, sufijo,
                                i, pagina, escritura)
        IN  /\ salida' = p.salida
            /\ resultados' = p.resultados
            /\ iter' = p.iter
            /\ abiertos' = TrasManejador(abiertos, ManejadorPagina(i + 1), escritura)
            /\ escritos' = IF escritura = "ok"
                           THEN Append(escritos, p.iter.ruta_salida)
                           ELSE escritos
    /\ salida_antes' = salida
    /\ i' = i + 1
    /\ UNCHANGED <<pc, varsArgs, llamadas, paginas_vistas, total_paginas,
                   varsLimpiar, varsExtraer, varsLote, varsIdem>>

\* lines 255 and 263: loading the page or reading its text raises, outside the try
Sep_PaginaIlegible ==
    /\ pc = "pagina"
    /\ i < total_paginas
    /\ pc' = "excepcion"
    /\ UNCHANGED <<varsSeparar, varsLimpiar, varsExtraer, varsLote, varsIdem>>

\* lines 308-330: documento.close() and the return
Sep_Cerrar ==
    /\ pc = "pagina"
    /\ i = total_paginas
    /\ abiertos' = abiertos \ {ManejadorDocumento}
    /\ pc' = "retorno"
    /\ UNCHANGED <<salida, varsArgs, llamadas, paginas_vistas, total_paginas, i, iter,
                   resultados, salida_antes, escritos, varsLimpiar, varsExtraer, varsLote, varsIdem>>

NextSeparar ==
    \/ Sep_Abrir
    \/ Sep_AbrirFalla
    \/ Sep_Pagina
    \/ Sep_PaginaIlegible
    \/ Sep_Cerrar

SpecSeparar == InitSeparar /\ [][NextSeparar]_vars

(***************************************************************************)
(* Properties of separar_certificados.                                     *)
(***************************************************************************)
John_Doe_pdf == <<"J","o","h","n","_","D","o","e",".","p","d","f">>
John_Doe_1_pdf == <<"J","o","h","n","_","D","o","e","_","1",".","p","d","f">>

\* C1: the path a page is saved to does not exist when it is saved, so no
\* file that was there before the run or written earlier in it (by this or an
\* earlier document) is overwritten; the paths written successfully are
\* pairwise distinct and their files are still there.
C1_SinSobrescritura ==
    /\ iter.numero > 0 => iter.ruta_salida \notin salida_antes
    /\ \A a, b \in 1..Len(escritos) : a # b => escritos[a] # escritos[b]
    /\ \A a \in 1..Len(escritos) : escritos[a] \in salida

\* a second document's page met a file of the same base name and was saved
C1_Testigo ==
    /\ llamadas = 2
    /\ Len(escritos) >= 2
    /\ iter.escritura = "ok"
    /\ NombreBase(prefijo, iter.nombre_limpio, sufijo) \in salida_antes

C2_Generado(numero) == PrefijoGenerado \o <<"0", "0">> \o <<Digitos[numero + 1]>>

\* C2 as stated: an entry of the list at the page's index is the page's name
\* with tag lista, whatever the entry is; else the extracted name; else the
\* placeholder certificado_NNN.
C2_PrecedenciaOriginal ==
    iter.numero > 0 =>
        LET idx == iter.numero - 1
            extraido == extraer_nombre_de_pagina(iter.pagina)
        IN  IF idx < Len(lista_nombres)
            THEN iter.nombre = lista_nombres[idx + 1] /\ iter.origen = "lista"
            ELSE IF extraido # None
                 THEN iter.nombre = extraido /\ iter.origen = "extraido"
                 ELSE iter.nombre = C2_Generado(iter.numero) /\ iter.origen = "generado"

\* C2 amended: a non-empty entry of the list at the page's index is the
\* page's name with tag lista, whatever the page text; an empty entry gives
\* the placeholder certificado_NNN with tag generado, the page text not being
\* consulted; past the end of the list the name is the extracted one (tag
\* extraido) when extraction yields one, else the placeholder (tag generado).
C2_Precedencia ==
    iter.numero > 0 =>
        LET idx == iter.numero - 1
            extraido == extraer_nombre_de_pagina(iter.pagina)
        IN  IF idx < Len(lista_nombres) /\ lista_nombres[idx + 1] # <<>>
            THEN iter.nombre = lista_nombres[idx + 1] /\ iter.origen = "lista"
            ELSE IF idx >= Len(lista_nombres) /\ extraido # None
                 THEN iter.nombre = extraido /\ iter.origen = "extraido"
                 ELSE iter.nombre = C2_Generado(iter.numero) /\ iter.origen = "generado"

\* the list named page 1 over a page whose text yields a name, and page 2,
\* past the end of the list, took the extracted name
C2_Testigo ==
    /\ Len(lista_nombres) = 1
    /\ iter.numero = 2
    /\ iter.origen = "extraido"
    /\ Len(resultados.exitosos) = 2
    /\ resultados.exitosos[1].origen = "lista"
    /\ resultados.exitosos[1].nombre = John_Doe_1

C4_Veces(res, n) ==
    Cardinality({k \in DOMAIN res.exitosos : res.exitosos[k].pagina = n})
        + Cardinality({k \in DOMAIN res.errores : res.errores[k].pagina = n})

\* C4: failed writes do not stop the loop: every page begun is recorded once,
\* as a success or as a failure, and at the return the summary has total = N,
\* every page 1..N exactly once, and the files of the successes are there.
C4_ResumenCompleto ==
    /\ pc = "pagina" =>
        /\ Len(resultados.exitosos) + Len(resultados.errores) = i
        /\ \A n \in 1..i : C4_Veces(resultados, n) = 1
    /\ pc = "retorno" =>
        /\ resultados.total = total_paginas
        /\ Len(resultados.exitosos) + Len(resultados.errores) = total_paginas
        /\ \A n \in 1..total_paginas : C4_Veces(resultados, n) = 1
        /\ \A k \in DOMAIN resultados.exitosos : resultados.exitosos[k].archivo \in salida

\* a call returned after page 1 succeeded, page 2 failed and page 3 succeeded
C4_Testigo ==
    /\ pc = "retorno"
    /\ total_paginas = 3
    /\ Len(resultados.errores) = 1
    /\ resultados.errores[1].pagina = 2
    /\ Len(resultados.exitosos) = 2
    /\ resultados.exitosos[2].pagina = 3

\* C5: when a page iteration begins no output document of an earlier page
\* is open, and when the call has returned or raised no document it opened
\* is open.
C5_ManejadoresCerrados ==
    /\ (pc = "pagina" /\ i < total_paginas) => \A h \in abiertos : h.tipo # "nuevo_pdf"
    /\ pc \in {"retorno", "excepcion"} => abiertos = {}

\* C9: the page goes to the base name when no file has it; otherwise to the
\* name with _n, n the least integer >= 1 whose name no file has. With
\* John_Doe.pdf there and John_Doe_1.pdf not, John_Doe goes to John_Doe_1.pdf.
C9_NombreEnColision ==
    iter.numero > 0 =>
        LET base == prefijo \o iter.nombre_limpio \o sufijo \o ExtPdf
            con(n) == prefijo \o iter.nombre_limpio \o <<"_">> \o Decimal(n)
                        \o sufijo \o ExtPdf
        IN  /\ base \notin salida_antes => iter.ruta_salida = base
            /\ base \in salida_antes =>
                \E n \in 1..(Cardinality(salida_antes) + 1) :
                    /\ iter.ruta_salida = con(n)
                    /\ con(n) \notin salida_antes
                    /\ \A m \in 1..(n - 1) : con(m) \in salida_antes
            /\ (/\ prefijo = <<>>
                /\ sufijo = <<>>
                /\ iter.nombre_limpio = John_Doe
                /\ John_Doe_pdf \in salida_antes
                /\ John_Doe_1_pdf \notin salida_antes) => iter.ruta_salida = John_Doe_1_pdf
            /\ iter.escritura = "ok" => iter.ruta_salida \in salida

\* with John_Doe.pdf present, a page named John_Doe was written as John_Doe_1.pdf
C9_Testigo ==
    /\ iter.escritura = "ok"
    /\ iter.nombre_limpio = John_Doe
    /\ John_Doe_pdf \in salida_antes
    /\ iter.ruta_salida = John_Doe_1_pdf
    /\ John_Doe_1_pdf \in salida

(***************************************************************************)
(* main and procesar_carpeta_entrada, one document per step.               *)
(***************************************************************************)
\* mutant of limpiar_carpeta_salida: nothing is unlinked
limpiar_carpeta_salida_nada(dir, bloqueados) == dir

\* lines 49-57: every PDF of the output directory is unlinked; those whose
\* unlink raises stay
limpiar_carpeta_salida(dir, bloqueados) == dir \cap bloqueados

\* lines 65-77
eliminar_pdf_entrada(dir, pdf, falla) ==
    IF pdf \in dir /\ ~falla THEN dir \ {pdf} ELSE dir

\* mutant of MarcarProcesado: every processed input is marked
MarcarProcesadoSiempre(resultado) == TRUE

\* line 388
MarcarProcesado(resultado) == resultado.errores = <<>>

\* lines 511-512 and 524
CodigoArchivo(resultado) == IF resultado.errores # <<>> THEN 1 ELSE 0

\* lines 521-524
CodigoCarpeta(lista_resultados) == IF lista_resultados = <<>> THEN 1 ELSE 0

\* the documents within the page budget left, and the outcomes of their writes
PaginasLote == {<<PatronInvalido, Coincidencia(John_Doe \o <<"?">>)>>}
EscriturasLote == {"ok", "falla"}
DocumentosPosibles == UNION {[1..n -> PaginasLote] : n \in 0..(MaxPaginas - paginas_vistas)}
EscriturasPara(paginas) == [1..Len(paginas) -> EscriturasLote]

EnOrden(S) == [n \in 1..Cardinality(S) |-> n]

Init ==
    /\ pc = "main"
    /\ modo_archivo \in BOOLEAN
    /\ limpiar_salida \in BOOLEAN
    /\ eliminar_entrada \in BOOLEAN
    /\ modo_archivo => (limpiar_salida /\ eliminar_entrada)
    /\ \E n \in 0..MaxDocs : entrada = 1..n
    /\ modo_archivo => entrada = {}
    /\ archivos_pdf = <<>>
    /\ hechos = 0
    /\ todos_resultados = <<>>
    /\ pdfs_procesados = <<>>
    /\ borrados = 0
    /\ exit_code = -1
    /\ docs_fallidos = {}
    /\ salida \in SalidasIniciales
    /\ lista_nombres \in ListasModelo
    /\ \E a \in AfijosModelo : prefijo = a[1] /\ sufijo = a[2]
    /\ paginas_vistas = 0
    /\ LocalesEnReposo
    /\ LimpiarEnReposo
    /\ ExtraerEnReposo
    /\ IdemEnReposo

\* lines 503-512 and 524: --archivo, separar_certificados returns
Main_Archivo ==
    /\ pc = "main"
    /\ modo_archivo
    /\ \E paginas \in DocumentosPosibles :
        \E escrituras \in EscriturasPara(paginas) :
            LET r == separar_certificados(salida, lista_nombres, prefijo, sufijo, 0,
                                          paginas, escrituras)
            IN  /\ salida' = r.salida
                /\ resultados' = r.resultados
                /\ exit_code' = CodigoArchivo(r.resultados)
                /\ paginas_vistas' = paginas_vistas + Len(paginas)
    /\ pc' = "exit"
    /\ UNCHANGED <<varsArgs, llamadas, total_paginas, i, iter, abiertos, salida_antes,
                   escritos, modo_archivo, limpiar_salida, eliminar_entrada, entrada,
                   archivos_pdf, hechos, todos_resultados, pdfs_procesados, borrados,
                   docs_fallidos, varsLimpiar, varsExtraer, varsIdem>>

\* lines 526-528: --archivo, separar_certificados raises (the file is missing,
\* fitz.open raises, or a page fails to load after `paginas` were processed)
Main_ArchivoLanza ==
    /\ pc = "main"
    /\ modo_archivo
    /\ \E paginas \in DocumentosPosibles :
        \E escrituras \in EscriturasPara(paginas) :
            LET r == separar_certificados(salida, lista_nombres, prefijo, sufijo, 0,
                                          paginas, escrituras)
            IN  /\ salida' = r.salida
                /\ paginas_vistas' = paginas_vistas + Len(paginas)
    /\ docs_fallidos' = docs_fallidos \cup {0}
    /\ exit_code' = 1
    /\ pc' = "exit"
    /\ UNCHANGED <<varsArgs, llamadas, total_paginas, i, iter, resultados, abiertos,
                   salida_antes, escritos, modo_archivo, limpiar_salida, eliminar_entrada,
                   entrada, archivos_pdf, hechos, todos_resultados, pdfs_procesados,
                   borrados, varsLimpiar, varsExtraer, varsIdem>>

\* lines 350-373: the input directory is globbed (a missing directory gives
\* no input, like an empty one) and the output directory purged
Carpeta_Inicio ==
    /\ pc = "main"
    /\ ~modo_archivo
    /\ IF entrada = {}
       THEN /\ pc' = "retorno"
            /\ UNCHANGED <<archivos_pdf, salida>>
       ELSE /\ pc' = "bucle"
            /\ archivos_pdf' = EnOrden(entrada)
            /\ IF limpiar_salida
               THEN \E bloqueados \in SUBSET salida :
                        salida' = limpiar_carpeta_salida(salida, bloqueados)
               ELSE UNCHANGED salida
    /\ UNCHANGED <<varsArgs, llamadas, paginas_vistas, total_paginas, i, iter, resultados,
                   abiertos, salida_antes, escritos, modo_archivo, limpiar_salida,
                   eliminar_entrada, entrada, hechos, todos_resultados, pdfs_procesados,
                   borrados, exit_code, docs_fallidos, varsLimpiar, varsExtraer, varsIdem>>

\* lines 375-389: the next document of the batch is processed and returns
Carpeta_Documento ==
    /\ pc = "bucle"
    /\ hechos < Len(archivos_pdf)
    /\ \E paginas \in DocumentosPosibles :
        \E escrituras \in EscriturasPara(paginas) :
            LET pdf == archivos_pdf[hechos + 1]
                r == separar_certificados(salida, lista_nombres, prefijo, sufijo, pdf,
                                          paginas, escrituras)
            IN  /\ salida' = r.salida
                /\ todos_resultados' = Append(todos_resultados, r.resultados)
                /\ pdfs_procesados' = IF MarcarProcesado(r.resultados)
                                      THEN Append(pdfs_procesados, pdf)
                                      ELSE pdfs_procesados
                /\ paginas_vistas' = paginas_vistas + Len(paginas)
    /\ hechos' = hechos + 1
    /\ UNCHANGED <<pc, varsArgs, llamadas, total_paginas, i, iter, resultados, abiertos,
                   salida_antes, escritos, modo_archivo, limpiar_salida, eliminar_entrada,
                   entrada, archivos_pdf, borrados, exit_code, docs_fallidos,
                   varsLimpiar, varsExtraer, varsIdem>>

\* lines 391-392: the next document of the batch raises, after `paginas` of
\* its pages were processed
Carpeta_DocumentoLanza ==
    /\ pc = "bucle"
    /\ hechos < Len(archivos_pdf)
    /\ \E paginas \in DocumentosPosibles :
        \E escrituras \in EscriturasPara(paginas) :
            LET r == separar_certificados(salida, lista_nombres, prefijo, sufijo,
                                          archivos_pdf[hechos + 1], paginas, escrituras)
            IN  /\ salida' = r.salida
                /\ paginas_vistas' = paginas_vistas + Len(paginas)
    /\ docs_fallidos' = docs_fallidos \cup {archivos_pdf[hechos + 1]}
    /\ hechos' = hechos + 1
    /\ UNCHANGED <<pc, varsArgs, llamadas, total_paginas, i, iter, resultados, abiertos,
                   salida_antes, escritos, modo_archivo, limpiar_salida, eliminar_entrada,
                   entrada, archivos_pdf, todos_resultados, pdfs_procesados, borrados,
                   exit_code, varsLimpiar, varsExtraer, varsIdem>>

\* line 395: the loop is over
Carpeta_FinBucle ==
    /\ pc = "bucle"
    /\ hechos = Len(archivos_pdf)
    /\ pc' = IF eliminar_entrada /\ pdfs_procesados # <<>> THEN "eliminar" ELSE "retorno"
    /\ UNCHANGED <<varsSeparar, varsLote, varsLimpiar, varsExtraer, varsIdem>>

\* lines 397-398: one marked input is deleted, if its unlink does not raise
Carpeta_Eliminar ==
    /\ pc = "eliminar"
    /\ borrados < Len(pdfs_procesados)
    /\ \E falla \in BOOLEAN :
        entrada' = eliminar_pdf_entrada(entrada, pdfs_procesados[borrados + 1], falla)
    /\ borrados' = borrados + 1
    /\ pc' = IF borrados + 1 = Len(pdfs_procesados) THEN "retorno" ELSE "eliminar"
    /\ UNCHANGED <<varsSeparar, modo_archivo, limpiar_salida, eliminar_entrada,
                   archivos_pdf, hechos, todos_resultados, pdfs_procesados, exit_code,
                   docs_fallidos, varsLimpiar, varsExtraer, varsIdem>>

\* lines 400 and 521-524: procesar_carpeta_entrada returns and main exits
Main_Carpeta ==
    /\ pc = "retorno"
    /\ exit_code' = CodigoCarpeta(todos_resultados)
    /\ pc' = "exit"
    /\ UNCHANGED <<varsSeparar, modo_archivo, limpiar_salida, eliminar_entrada, entrada,
                   archivos_pdf, hechos, todos_resultados, pdfs_procesados, borrados,
                   docs_fallidos, varsLimpiar, varsExtraer, varsIdem>>

Next ==
    \/ Main_Archivo
    \/ Main_ArchivoLanza
    \/ Carpeta_Inicio
    \/ Carpeta_Documento
    \/ Carpeta_DocumentoLanza
    \/ Carpeta_FinBucle
    \/ Carpeta_Eliminar
    \/ Main_Carpeta

Spec == Init /\ [][Next]_vars

C3_SinErrores ==
    IF modo_archivo THEN resultados.errores = <<>>
    ELSE \A n \in 1..Len(todos_resultados) : todos_resultados[n].errores = <<>>

C3_HuboEntrada == modo_archivo \/ archivos_pdf # <<>>

\* C3: in both modes the exit status is zero exactly when an input was
\* found, no document raised and no page of any document failed.
C3_EstadoDeSalida ==
    pc = "exit" =>
        (exit_code = 0 <=> (C3_HuboEntrada /\ docs_fallidos = {} /\ C3_SinErrores))

C6_Eliminados == {d \in 1..Len(archivos_pdf) : archivos_pdf[d] \notin entrada}

\* C6: an input is deleted only if deletion is enabled and its own run
\* returned a summary without failures; an input whose run had a failed page
\* or raised is never deleted; nothing is deleted before the last document
\* of the batch has been processed.
C6_BorradoDeEntrada ==
    /\ \A d \in C6_Eliminados :
        /\ eliminar_entrada
        /\ archivos_pdf[d] \notin docs_fallidos
        /\ \E n \in 1..Len(todos_resultados) :
            /\ todos_resultados[n].pdf_origen = archivos_pdf[d]
            /\ todos_resultados[n].errores = <<>>
    /\ \A n \in 1..Len(todos_resultados) :
        todos_resultados[n].errores # <<>> => todos_resultados[n].pdf_origen \in entrada
    /\ ~modo_archivo => docs_fallidos \subseteq entrada
    /\ C6_Eliminados # {} => (hechos = Len(archivos_pdf) /\ pc \in {"eliminar", "retorno", "exit"})

\* the batch ended with the first input, processed without failures, deleted
\* and the second, which had a failed page, kept
C6_Testigo ==
    /\ pc = "exit"
    /\ Len(archivos_pdf) = 2
    /\ entrada = {2}
    /\ Len(todos_resultados) = 2
    /\ todos_resultados[1].errores = <<>>
    /\ todos_resultados[1].total > 0
    /\ todos_resultados[2].errores # <<>>

(***************************************************************************)
(* The same document processed twice, the output directory purged before   *)
(* each run; the second run's writes fail where the first run's did.       *)
(***************************************************************************)
\* the purges in which at most one unlink raises
BloqueosPosibles(dir) == {{}} \cup {{f} : f \in dir}

InitIdem ==
    /\ pc = "purgar"
    /\ documento \in UNION {[1..n -> PaginasModelo] : n \in 0..MaxPaginas}
    /\ corridas = <<>>
    /\ salida \in SalidasIniciales
    /\ lista_nombres \in ListasModelo
    /\ \E a \in AfijosModelo : prefijo = a[1] /\ sufijo = a[2]
    /\ paginas_vistas = 0
    /\ LocalesEnReposo
    /\ LoteEnReposo
    /\ LimpiarEnReposo
    /\ ExtraerEnReposo

\* limpiar_carpeta_salida, lines 40-62
Idem_Purgar ==
    /\ pc = "purgar"
    /\ \E bloqueados \in BloqueosPosibles(salida) :
        /\ salida' = limpiar_carpeta_salida(salida, bloqueados)
        /\ pc' = IF bloqueados = {} THEN "separar" ELSE "separar_sin_purga"
    /\ UNCHANGED <<varsArgs, llamadas, paginas_vistas, total_paginas, i, iter, resultados,
                   abiertos, salida_antes, escritos, varsLote, varsIdem, varsLimpiar,
                   varsExtraer>>

\* separar_certificados, lines 201-330
Idem_Separar ==
    /\ pc \in {"separar", "separar_sin_purga"}
    /\ \E escrituras \in [1..Len(documento) -> Escrituras] :
        /\ corridas # <<>> => escrituras = corridas[1].escrituras
        /\ LET r == separar_certificados(salida, lista_nombres, prefijo, sufijo, 1,
                                         documento, escrituras)
           IN  /\ salida' = r.salida
               /\ corridas' = Append(corridas,
                    [purgada |-> pc = "separar", escrituras |-> escrituras,
                     resumen |-> r.resultados])
    /\ pc' = IF corridas = <<>> THEN "purgar" ELSE "fin"
    /\ UNCHANGED <<varsArgs, llamadas, paginas_vistas, total_paginas, i, iter, resultados,
                   abiertos, salida_antes, escritos, varsLote, documento, varsLimpiar,
                   varsExtraer>>

NextIdem ==
    \/ Idem_Purgar
    \/ Idem_Separar

SpecIdem == InitIdem /\ [][NextIdem]_vars

AlfabetoLimpiar == {"a", " ", "\n", ":"}

LargosRelleno == {0} \cup ((MaxNombre - 2) .. (MaxNombre + 1))

EntradasLimpiar ==
    {pre \o Repetir("a", k) \o suf :
        pre \in SeqsHasta(AlfabetoLimpiar, MaxAfijo),
        suf \in SeqsHasta(AlfabetoLimpiar, MaxAfijo),
        k \in LargosRelleno}

InitLimpiar ==
    /\ pc = "llamar"
    /\ arg_nombre \in EntradasLimpiar
    /\ ret_limpio = None
    /\ ExtraerEnReposo
    /\ SepararEnReposo
    /\ LoteEnReposo
    /\ IdemEnReposo

Limpiar ==
    /\ pc = "llamar"
    /\ ret_limpio' = limpiar_nombre_archivo(arg_nombre)
    /\ pc' = "retorno"
    /\ UNCHANGED <<arg_nombre, varsExtraer, varsSeparar, varsLote, varsIdem>>

NextLimpiar == Limpiar

SpecLimpiar == InitLimpiar /\ [][NextLimpiar]_vars

C7_SoloInvalidos(s) == \A j \in 1..Len(s) : s[j] \in Reservados \cup Espacios

\* C7: the result has no reserved character, no two spaces in a row, no
\* leading or trailing space and at most 100 characters; an input of only
\* reserved characters and whitespace gives certificado_sin_nombre.
C7_NombreSaneado ==
    pc = "retorno" =>
        /\ \A j \in 1..Len(ret_limpio) : ret_limpio[j] \notin Reservados
        /\ \A j \in 1..(Len(ret_limpio) - 1) :
                ~(ret_limpio[j] = " " /\ ret_limpio[j + 1] = " ")
        /\ ret_limpio # <<>> => ret_limpio[1] # " " /\ ret_limpio[Len(ret_limpio)] # " "
        /\ Len(ret_limpio) <= 100
        /\ C7_SoloInvalidos(arg_nombre) => ret_limpio = SinNombre

(***************************************************************************)
(* Specification of extraer_nombre_de_pagina over bounded pages.           *)
(***************************************************************************)
AlfabetoCaptura == {"a", " ", "\n"}

ResultadosBusqueda ==
    {SinCoincidencia, PatronInvalido}
        \cup {Coincidencia(g) : g \in SeqsHasta(AlfabetoCaptura, MaxCaptura)}

PaginasExtraer ==
    UNION {[1..k -> ResultadosBusqueda] : k \in 0..MaxPatrones}

InitExtraer ==
    /\ pc = "llamar"
    /\ arg_pagina \in PaginasExtraer
    /\ ret_nombre = None
    /\ LimpiarEnReposo
    /\ SepararEnReposo
    /\ LoteEnReposo
    /\ IdemEnReposo

Extraer ==
    /\ pc = "llamar"
    /\ ret_nombre' = extraer_nombre_de_pagina(arg_pagina)
    /\ pc' = "retorno"
    /\ UNCHANGED <<arg_pagina, varsLimpiar, varsSeparar, varsLote, varsIdem>>

NextExtraer == Extraer

SpecExtraer == InitExtraer /\ [][NextExtraer]_vars

\* the value C8 describes for a capture: what precedes its first line break,
\* with whitespace collapsed to single spaces
C8_Valor(grupo) == strip(ColapsarEspacios(AntesDeSalto(strip(grupo))))

C8_Elegibles(pagina) ==
    {k \in 1..Len(pagina) : pagina[k].tipo = "match" /\ Len(strip(pagina[k].grupo)) > 2}

\* C8: the name returned is the capture of the first pattern whose trimmed
\* capture is longer than 2 characters, whitespace collapsed and cut at its
\* first line break; no name when there is no such pattern.
C8_ExtraeTruncado ==
    pc = "retorno" =>
        LET elegibles == C8_Elegibles(arg_pagina)
            primero == CHOOSE k \in elegibles : \A m \in elegibles : k <= m
        IN  IF elegibles = {} THEN ret_nombre = None
            ELSE ret_nombre = C8_Valor(arg_pagina[primero].grupo)

====
